---- MODULE Spec2Model ----
(***************************************************************************)
(* Model of the bloxd-movie texture pipeline: the palette indexer, the     *)
(* included-block-id lister, the candidate filter, the colour matcher      *)
(* (static script with its memo cache, sequence script with hysteresis)    *)
(* and the blueprint encoder.                                              *)
(*                                                                         *)
(* Representation notes.                                                   *)
(*  - JavaScript strings that the code searches or parses (block names,    *)
(*    face names, block keys, colour hex keys) are sequences of            *)
(*    characters or digits, so includes(), parseInt() and the hex          *)
(*    formatting are computed, not assumed.                                *)
(*  - JavaScript null is the integer -1 where the other values are         *)
(*    integers (texture ids, limits), and nullColor where they are         *)
(*    colours.                                                             *)
(*  - Math.sqrt results are held in fixed point, in hundredths.  Every     *)
(*    atlas colour and pixel colour enumerated below has distances that    *)
(*    are either whole numbers or further than 0.01 from every value they  *)
(*    are compared to, so each comparison agrees with the IEEE double one. *)
(*  - Files are sequences: <<>> while unwritten, <<content>> once written. *)
(***************************************************************************)
EXTENDS Integers, Sequences, FiniteSets, TLC

null == -1

nullColor == [r |-> -1, g |-> -1, b |-> -1]

NoFile == << >>

(***************************************************************************)
(* Generic helpers                                                         *)
(***************************************************************************)
Min(a, b) == IF a < b THEN a ELSE b

Range(s) == {s[i] : i \in 1..Len(s)}

\* String.prototype.includes on character sequences
Includes(s, sub) ==
    \E i \in 1..(Len(s) - Len(sub) + 1) : SubSeq(s, i, i + Len(sub) - 1) = sub

\* Array.prototype.includes on arrays of numbers
Contains(s, v) == \E i \in 1..Len(s) : s[i] = v

RECURSIVE ParseDigits(_, _)
ParseDigits(digits, acc) ==
    IF digits = << >> THEN acc
    ELSE ParseDigits(Tail(digits), acc * 10 + Head(digits))

\* parseInt(key, 10) on a string of decimal digits
parseInt(key) == ParseDigits(key, 0)

RECURSIVE InsertAsc(_, _)
InsertAsc(sorted, v) ==
    IF sorted = << >> THEN <<v>>
    ELSE IF v < Head(sorted) THEN <<v>> \o sorted
    ELSE <<Head(sorted)>> \o InsertAsc(Tail(sorted), v)

RECURSIVE SortAsc(_)
\* array.sort((a, b) => a - b)
SortAsc(s) ==
    IF s = << >> THEN << >> ELSE InsertAsc(SortAsc(SubSeq(s, 1, Len(s) - 1)), s[Len(s)])

RECURSIVE ISqrtBetween(_, _, _)
ISqrtBetween(n, lo, hi) ==
    IF lo >= hi THEN lo
    ELSE LET mid == (lo + hi + 1) \div 2
         IN  IF mid * mid <= n THEN ISqrtBetween(n, mid, hi)
             ELSE ISqrtBetween(n, lo, mid - 1)

\* Math.sqrt(n), in hundredths (n is at most 3 * 127^2 here)
Sqrt(n) == ISqrtBetween(n * 10000, 0, 46340)

\* a JavaScript number literal, in hundredths
Fixed(x) == x * 100

\* Math.round(num / den) for num >= 0, den > 0 (halves round up)
RoundDiv(num, den) == (2 * num + den) \div (2 * den)

(***************************************************************************)
(* Colours                                                                 *)
(***************************************************************************)
\* the colour key '#transparent'
TransparentHex == <<-1>>

\* '#' + [r, g, b].map(c => c.toString(16).padStart(2, '0')).join('')
colorKey(px) ==
    IF px.a < 255 THEN TransparentHex
    ELSE << px.r \div 16, px.r % 16, px.g \div 16, px.g % 16, px.b \div 16, px.b % 16 >>

hexToRgb(hex) ==
    IF hex = TransparentHex THEN nullColor
    ELSE [r |-> hex[1] * 16 + hex[2], g |-> hex[3] * 16 + hex[4], b |-> hex[5] * 16 + hex[6]]

colorDistance(rgb1, rgb2) ==
    LET rDiff == rgb1.r - rgb2.r
        gDiff == rgb1.g - rgb2.g
        bDiff == rgb1.b - rgb2.b
    IN  Sqrt(rDiff * rDiff + gDiff * gDiff + bDiff * bDiff)

\* blueprint.getPixelColor(x, y): the pixel as one RGBA integer
getPixelColor(px) == ((px.r * 256 + px.g) * 256 + px.b) * 256 + px.a

intToRGBA(i) ==
    [r |-> (i \div 16777216) % 256, g |-> (i \div 65536) % 256,
     b |-> (i \div 256) % 256, a |-> i % 256]

(***************************************************************************)
(* The texture atlases (textures/atlas_<n>.png), already cut into          *)
(* TEXTURE_SIZE x TEXTURE_SIZE regions: the pixels of region               *)
(* <<atlasFileIndex, textureIndexOnAtlas>> in scan order.                  *)
(***************************************************************************)
TEXTURE_SIZE == 8

Opaque(r, g, b) == [r |-> r, g |-> g, b |-> b, a |-> 255]

Clear == [r |-> 0, g |-> 0, b |-> 0, a |-> 0]

Run(n, px) == [i \in 1..n |-> px]

AtlasRegions ==
    (<<0, 0>> :> Run(64, Opaque(0, 0, 0)))
    @@ (<<0, 1>> :> Run(64, Opaque(25, 0, 0)))
    @@ (<<0, 2>> :> (Run(1, Opaque(20, 0, 0)) \o Run(32, Opaque(10, 0, 0))
                     \o Run(31, Opaque(20, 0, 0))))
    @@ (<<0, 3>> :> (Run(40, Opaque(0, 0, 0)) \o Run(16, Opaque(16, 0, 0))
                     \o Run(8, Opaque(32, 0, 0))))
    @@ (<<1, 0>> :> (Run(16, Opaque(40, 0, 0)) \o Run(48, Clear)))
    @@ (<<1, 1>> :> (Run(32, Opaque(0, 0, 0)) \o Run(32, Opaque(60, 0, 0))))
    @@ (<<1, 2>> :> Run(64, Opaque(15, 20, 0)))
    @@ (<<1, 3>> :> Run(64, [r |-> 9, g |-> 9, b |-> 9, a |-> 128]))

\* atlas.clone().crop(...): the region a texture reference names
cropTexture(textureInfo) ==
    AtlasRegions[<<textureInfo.atlasFileIndex, textureInfo.textureIndexOnAtlas>>]

(***************************************************************************)
(* Texture Analyzer                                                        *)
(***************************************************************************)
RECURSIVE CountColors(_, _)
\* the scan callback: colorCounts[colorKey] = (colorCounts[colorKey] || 0) + 1,
\* keys kept in insertion order as Object.entries lists them
CountColors(pixels, counts) ==
    IF pixels = << >> THEN counts
    ELSE LET key == colorKey(Head(pixels))
             at == {i \in 1..Len(counts) : counts[i][1] = key}
         IN  IF at = {}
             THEN CountColors(Tail(pixels), Append(counts, <<key, 1>>))
             ELSE LET i == CHOOSE j \in at : TRUE
                  IN  CountColors(Tail(pixels),
                                  [counts EXCEPT ![i] = <<key, counts[i][2] + 1>>])

RECURSIVE InsertByCountDesc(_, _)
InsertByCountDesc(sorted, e) ==
    IF sorted = << >> THEN <<e>>
    ELSE IF e[2] > Head(sorted)[2] THEN <<e>> \o sorted
    ELSE <<Head(sorted)>> \o InsertByCountDesc(Tail(sorted), e)

RECURSIVE SortByCountDesc(_)
\* entries.sort(([, countA], [, countB]) => countB - countA), a stable sort
SortByCountDesc(s) ==
    IF s = << >> THEN << >>
    ELSE InsertByCountDesc(SortByCountDesc(SubSeq(s, 1, Len(s) - 1)), s[Len(s)])

analyzeTexture(textureInfo) ==
    LET pixels == cropTexture(textureInfo)
        sortedColors == SortByCountDesc(CountColors(pixels, << >>))
    IN  [hasTransparency |-> \E i \in 1..Len(pixels) : pixels[i].a < 255,
         colorCount |-> Len(sortedColors),
         colorHexes |-> [i \in 1..Len(sortedColors) |-> sortedColors[i][1]],
         colorPixelCounts |-> [i \in 1..Len(sortedColors) |-> sortedColors[i][2]]]

(***************************************************************************)
(* block_texture_map.json: block key -> {name, faceMap, texturePalette}.   *)
(* Keys are decimal numerals; faceMap is the list of its entries in        *)
(* insertion order; texturePalette is indexed from 0 in the code and from  *)
(* 1 here.                                                                 *)
(***************************************************************************)
Tex(a, t) == [atlasFileIndex |-> a, textureIndexOnAtlas |-> t]

FrontFace == <<"F", "r", "o", "n", "t", "F", "a", "c", "e">>
BackFace == <<"B", "a", "c", "k", "F", "a", "c", "e">>
TopFace == <<"T", "o", "p", "F", "a", "c", "e">>
BottomFace == <<"B", "o", "t", "t", "o", "m", "F", "a", "c", "e">>
BackLeftFace == <<"B", "a", "c", "k", "L", "e", "f", "t">>
SideFace == <<"S", "i", "d", "e">>

StoneName == <<"S", "t", "o", "n", "e">>
DirtName == <<"D", "i", "r", "t">>
OakSlabName == <<"O", "a", "k", " ", "S", "l", "a", "b">>
GlassName == <<"G", "l", "a", "s", "s">>
OreName == <<"O", "r", "e">>
WoolName == <<"W", "o", "o", "l">>
SandName == <<"S", "a", "n", "d">>

BlockPool ==
    (<<1>> :> [name |-> StoneName,
               faceMap |-> << <<FrontFace, 0>>, <<BackFace, 0>> >>,
               texturePalette |-> << Tex(0, 1) >>])
    @@ (<<2>> :> [name |-> DirtName,
                  faceMap |-> << <<FrontFace, 0>>, <<BackFace, 1>> >>,
                  texturePalette |-> << Tex(0, 0), Tex(0, 1) >>])
    @@ (<<7>> :> [name |-> OakSlabName,
                  faceMap |-> << <<FrontFace, 0>>, <<BackFace, 1>> >>,
                  texturePalette |-> << Tex(1, 2), Tex(0, 0) >>])
    @@ (<<1, 2>> :> [name |-> GlassName,
                     faceMap |-> << <<BackLeftFace, 0>>, <<FrontFace, 0>>, <<TopFace, 1>>,
                                    <<BackFace, 2>> >>,
                     texturePalette |-> << Tex(0, 1), Tex(1, 0), Tex(1, 3) >>])
    @@ (<<3, 0>> :> [name |-> OreName,
                     faceMap |-> << <<BackFace, 0>>, <<FrontFace, 1>>, <<SideFace, 2>>,
                                    <<BottomFace, 5>>, <<TopFace, 3>> >>,
                     texturePalette |-> << Tex(0, 0), Tex(0, 2), Tex(1, 1), Tex(0, 3) >>])
    @@ (<<3, 1>> :> [name |-> WoolName,
                     faceMap |-> << <<FrontFace, 0>>, <<BackFace, 0>>, <<SideFace, 1>> >>,
                     texturePalette |-> << Tex(1, 2), Tex(1, 0) >>])
    @@ (<<1, 2, 7>> :> [name |-> SandName,
                        faceMap |-> << <<FrontFace, 0>>, <<BackFace, 0>> >>,
                        texturePalette |-> << Tex(1, 2) >>])

\* every block map the model reads: the blocks of any part of the pool
MapDatas == {[k \in keys |-> BlockPool[k]] : keys \in SUBSET (DOMAIN BlockPool)}

RECURSIVE EntriesAsc(_, _)
EntriesAsc(obj, keys) ==
    IF keys = {} THEN << >>
    ELSE LET k == CHOOSE c \in keys : \A d \in keys : parseInt(c) <= parseInt(d)
         IN  << <<k, obj[k]>> >> \o EntriesAsc(obj, keys \ {k})

\* Object.entries(mapData): integer keys are listed in ascending order
ObjectEntries(obj) == EntriesAsc(obj, DOMAIN obj)

(***************************************************************************)
(* Palette Indexer (third script of 3_bloxelizer.js)                       *)
(***************************************************************************)
\* mutant of getSimpleFaceName: a name that is not recognized counts as left
getSimpleFaceNameLeft(complexFaceName) ==
    IF Includes(complexFaceName, <<"T", "o", "p">>) THEN "top"
    ELSE IF Includes(complexFaceName, <<"B", "o", "t", "t", "o", "m">>) THEN "bottom"
    ELSE IF Includes(complexFaceName, <<"F", "r", "o", "n", "t">>) THEN "front"
    ELSE IF Includes(complexFaceName, <<"B", "a", "c", "k">>) THEN "back"
    ELSE IF Includes(complexFaceName, <<"R", "i", "g", "h", "t">>) THEN "right"
    ELSE IF Includes(complexFaceName, <<"L", "e", "f", "t">>) THEN "left"
    ELSE "left"

getSimpleFaceName(complexFaceName) ==
    IF Includes(complexFaceName, <<"T", "o", "p">>) THEN "top"
    ELSE IF Includes(complexFaceName, <<"B", "o", "t", "t", "o", "m">>) THEN "bottom"
    ELSE IF Includes(complexFaceName, <<"F", "r", "o", "n", "t">>) THEN "front"
    ELSE IF Includes(complexFaceName, <<"B", "a", "c", "k">>) THEN "back"
    ELSE IF Includes(complexFaceName, <<"R", "i", "g", "h", "t">>) THEN "right"
    ELSE IF Includes(complexFaceName, <<"L", "e", "f", "t">>) THEN "left"
    ELSE "unknown"

idsToSkip ==
    { <<1>>, <<1, 2, 7>>, <<6, 5, 5>>, <<6, 5, 6>>, <<6, 5, 7>>, <<6, 5, 8>>, <<6, 5, 9>>,
      <<6, 6, 0>>, <<1, 2, 2, 7>>, <<1, 2, 2, 8>>, <<1, 2, 2, 9>>, <<1, 2, 3, 0>>,
      <<1, 2, 3, 1>>, <<1, 2, 3, 2>> }

SlabMarker == <<"S", "l", "a", "b">>

\* the locals of the indexer's main() before its first block
IndexerStart ==
    [pc |-> "blocks", blockIdx |-> 1, faceIdx |-> 1,
     texturePalette |-> << >>,
     blockMap |-> << >>,
     faceIndex |-> [f \in {"top", "bottom", "front", "back", "left", "right"} |-> << >>],
     includedBlockIds |-> << >>,
     textureCache |-> << >>,
     textureIdToBlockIds |-> << >>]

\* one pass of the outer loop up to the inner loop: the two skips, then
\* includedBlockIds.push and blockMap[blockId] = name
indexBlock(s, md) ==
    LET entries == ObjectEntries(md)
        blockId == entries[s.blockIdx][1]
        blockData == entries[s.blockIdx][2]
    IN  IF Includes(blockData.name, SlabMarker) THEN [s EXCEPT !.blockIdx = @ + 1]
        ELSE IF blockId \in idsToSkip THEN [s EXCEPT !.blockIdx = @ + 1]
        ELSE LET t == [s EXCEPT !.includedBlockIds = Append(@, parseInt(blockId)),
                                !.blockMap = (blockId :> blockData.name) @@ @]
             IN  IF blockData.faceMap = << >>
                 THEN [t EXCEPT !.blockIdx = @ + 1]
                 ELSE [t EXCEPT !.pc = "faces", !.faceIdx = 1]

\* faceIndex[simpleFaceName][colorHex] gets textureId unless it is there already
addToFaceIndex(faceColors, colorHexes, textureId) ==
    LET fresh == {colorHexes[i] : i \in 1..Len(colorHexes)} \ DOMAIN faceColors
        grown == [h \in fresh |-> << >>] @@ faceColors
    IN  [h \in DOMAIN grown |->
            IF h \in Range(colorHexes) /\ ~Contains(grown[h], textureId)
            THEN Append(grown[h], textureId)
            ELSE grown[h]]

\* mutant of indexFace: textureCache is never consulted, every face adds a
\* palette entry
indexFaceNoReuse(s, md) ==
    LET entries == ObjectEntries(md)
        blockId == entries[s.blockIdx][1]
        blockData == entries[s.blockIdx][2]
        parsedBlockId == parseInt(blockId)
        complexFaceName == blockData.faceMap[s.faceIdx][1]
        paletteIndex == blockData.faceMap[s.faceIdx][2]
        advance(t) == IF s.faceIdx < Len(blockData.faceMap)
                      THEN [t EXCEPT !.faceIdx = @ + 1]
                      ELSE [t EXCEPT !.pc = "blocks", !.blockIdx = @ + 1, !.faceIdx = 1]
    IN  IF paletteIndex + 1 \notin DOMAIN blockData.texturePalette THEN advance(s)
        ELSE
        LET textureInfo == blockData.texturePalette[paletteIndex + 1]
            cacheKey == <<textureInfo.atlasFileIndex, textureInfo.textureIndexOnAtlas>>
            isNew == TRUE
            textureId == IF isNew THEN Len(s.texturePalette) ELSE s.textureCache[cacheKey]
            palette == IF isNew
                       THEN Append(s.texturePalette,
                                   [textureId |-> textureId] @@ textureInfo
                                       @@ analyzeTexture(textureInfo))
                       ELSE s.texturePalette
            cache == IF isNew THEN (cacheKey :> textureId) @@ s.textureCache
                     ELSE s.textureCache
            owners == IF textureId \in DOMAIN s.textureIdToBlockIds
                      THEN s.textureIdToBlockIds[textureId] ELSE << >>
            owned == (textureId :> (IF Contains(owners, parsedBlockId) THEN owners
                                    ELSE Append(owners, parsedBlockId)))
                     @@ s.textureIdToBlockIds
            simpleFaceName == getSimpleFaceName(complexFaceName)
            t == [s EXCEPT !.texturePalette = palette, !.textureCache = cache,
                           !.textureIdToBlockIds = owned]
        IN  IF simpleFaceName = "unknown" THEN advance(t)
            ELSE advance([t EXCEPT !.faceIndex[simpleFaceName] =
                             addToFaceIndex(@, palette[textureId + 1].colorHexes, textureId)])

\* one pass of the inner loop over the faces of the current block
indexFace(s, md) ==
    LET entries == ObjectEntries(md)
        blockId == entries[s.blockIdx][1]
        blockData == entries[s.blockIdx][2]
        parsedBlockId == parseInt(blockId)
        complexFaceName == blockData.faceMap[s.faceIdx][1]
        paletteIndex == blockData.faceMap[s.faceIdx][2]
        advance(t) == IF s.faceIdx < Len(blockData.faceMap)
                      THEN [t EXCEPT !.faceIdx = @ + 1]
                      ELSE [t EXCEPT !.pc = "blocks", !.blockIdx = @ + 1, !.faceIdx = 1]
    IN  IF paletteIndex + 1 \notin DOMAIN blockData.texturePalette THEN advance(s)
        ELSE
        LET textureInfo == blockData.texturePalette[paletteIndex + 1]
            cacheKey == <<textureInfo.atlasFileIndex, textureInfo.textureIndexOnAtlas>>
            isNew == cacheKey \notin DOMAIN s.textureCache
            textureId == IF isNew THEN Len(s.texturePalette) ELSE s.textureCache[cacheKey]
            palette == IF isNew
                       THEN Append(s.texturePalette,
                                   [textureId |-> textureId] @@ textureInfo
                                       @@ analyzeTexture(textureInfo))
                       ELSE s.texturePalette
            cache == IF isNew THEN (cacheKey :> textureId) @@ s.textureCache
                     ELSE s.textureCache
            owners == IF textureId \in DOMAIN s.textureIdToBlockIds
                      THEN s.textureIdToBlockIds[textureId] ELSE << >>
            owned == (textureId :> (IF Contains(owners, parsedBlockId) THEN owners
                                    ELSE Append(owners, parsedBlockId)))
                     @@ s.textureIdToBlockIds
            simpleFaceName == getSimpleFaceName(complexFaceName)
            t == [s EXCEPT !.texturePalette = palette, !.textureCache = cache,
                           !.textureIdToBlockIds = owned]
        IN  IF simpleFaceName = "unknown" THEN advance(t)
            ELSE advance([t EXCEPT !.faceIndex[simpleFaceName] =
                             addToFaceIndex(@, palette[textureId + 1].colorHexes, textureId)])

\* Array.from(blockIdSet).sort((a, b) => a - b), or [] without a set
blockIdsOf(textureIdToBlockIds, textureId) ==
    IF textureId \in DOMAIN textureIdToBlockIds
    THEN SortAsc(textureIdToBlockIds[textureId]) ELSE << >>

\* after the loops: texture.blockIds for every texture, includedBlockIds.sort
indexFinish(s) ==
    [s EXCEPT !.pc = "done",
              !.texturePalette =
                  [i \in 1..Len(@) |->
                      [blockIds |-> blockIdsOf(s.textureIdToBlockIds, @[i].textureId)] @@ @[i]],
              !.includedBlockIds = SortAsc(@)]

\* finalData, the content of 1_texture_index.json
finalData(s) ==
    [texture_palette |-> s.texturePalette, block_map |-> s.blockMap,
     face_index |-> s.faceIndex]

indexStep(s, md) ==
    IF s.pc = "faces" THEN indexFace(s, md)
    ELSE IF s.blockIdx <= Len(ObjectEntries(md)) THEN indexBlock(s, md)
    ELSE indexFinish(s)

RECURSIVE runIndexerFrom(_, _)
runIndexerFrom(s, md) == IF s.pc = "done" THEN s ELSE runIndexerFrom(indexStep(s, md), md)

\* the indexer's main() run from start to end on one block map
runIndexer(md) == runIndexerFrom(IndexerStart, md)

(***************************************************************************)
(* generate_included_blockids.js                                           *)
(***************************************************************************)
RECURSIVE collectIncluded(_, _)
\* the loop: skip slabs, includedBlockIds.add(parseInt(blockId, 10))
collectIncluded(entries, included) ==
    IF entries = << >> THEN included
    ELSE LET blockId == Head(entries)[1]
             blockData == Head(entries)[2]
         IN  IF Includes(blockData.name, SlabMarker)
             THEN collectIncluded(Tail(entries), included)
             ELSE collectIncluded(Tail(entries),
                                  IF Contains(included, parseInt(blockId)) THEN included
                                  ELSE Append(included, parseInt(blockId)))

\* sortedBlockIds, the content of included_block_ids.json
generateIncludedBlockIds(md) == SortAsc(collectIncluded(ObjectEntries(md), << >>))

(***************************************************************************)
(* Candidate Filter (first and second script of 3_bloxelizer.js)           *)
(***************************************************************************)
Infinity == 2147483647

RECURSIVE sumVisible(_, _, _, _)
\* the loop of calculatePerceivedColor: totals over entries i..limit
sumVisible(texture, i, limit, acc) ==
    IF i > limit THEN acc
    ELSE LET rgb == hexToRgb(texture.colorHexes[i])
             count == texture.colorPixelCounts[i]
         IN  IF rgb # nullColor
             THEN sumVisible(texture, i + 1, limit,
                             [totalR |-> acc.totalR + rgb.r * count,
                              totalG |-> acc.totalG + rgb.g * count,
                              totalB |-> acc.totalB + rgb.b * count,
                              totalPixels |-> acc.totalPixels + count])
             ELSE sumVisible(texture, i + 1, limit, acc)

\* mutant of calculatePerceivedColor: the loop stops one entry early
calculatePerceivedColorShort(texture, depth) ==
    LET limit == Min(depth, Len(texture.colorHexes)) - 1
        t == sumVisible(texture, 1, limit,
                        [totalR |-> 0, totalG |-> 0, totalB |-> 0, totalPixels |-> 0])
    IN  IF t.totalPixels = 0 THEN nullColor
        ELSE [r |-> RoundDiv(t.totalR, t.totalPixels),
              g |-> RoundDiv(t.totalG, t.totalPixels),
              b |-> RoundDiv(t.totalB, t.totalPixels)]

calculatePerceivedColor(texture, depth) ==
    LET limit == Min(depth, Len(texture.colorHexes))
        t == sumVisible(texture, 1, limit,
                        [totalR |-> 0, totalG |-> 0, totalB |-> 0, totalPixels |-> 0])
    IN  IF t.totalPixels = 0 THEN nullColor
        ELSE [r |-> RoundDiv(t.totalR, t.totalPixels),
              g |-> RoundDiv(t.totalG, t.totalPixels),
              b |-> RoundDiv(t.totalB, t.totalPixels)]

RECURSIVE sumDistances(_, _, _, _)
\* the loop of calculateColorVariance
sumDistances(texture, meanColor, i, acc) ==
    IF i > Len(texture.colorHexes) THEN acc
    ELSE LET rgb == hexToRgb(texture.colorHexes[i])
             count == texture.colorPixelCounts[i]
         IN  IF rgb # nullColor
             THEN sumDistances(texture, meanColor, i + 1,
                      [totalWeightedDistance |->
                           acc.totalWeightedDistance + colorDistance(rgb, meanColor) * count,
                       totalPixels |-> acc.totalPixels + count])
             ELSE sumDistances(texture, meanColor, i + 1, acc)

\* the variance, in hundredths
calculateColorVariance(texture) ==
    IF texture.colorCount <= 1 THEN 0
    ELSE LET meanColor == calculatePerceivedColor(texture, Infinity)
         IN  IF meanColor = nullColor THEN 0
             ELSE LET t == sumDistances(texture, meanColor, 1,
                                        [totalWeightedDistance |-> 0, totalPixels |-> 0])
                  IN  IF t.totalPixels = 0 THEN 0
                      ELSE t.totalWeightedDistance \div t.totalPixels

\* new Set(Object.values(faceIndex).flat())
validTextureIdsForFace(faceIndex) ==
    UNION {Range(faceIndex[h]) : h \in DOMAIN faceIndex}

\* mutant of passesFilters: the variance test is turned round
passesFiltersVarianceBelow(texture, valid, config) ==
    /\ texture.textureId \in valid
    /\ ~(config.maxColorCount # null /\ texture.colorCount > config.maxColorCount)
    /\ ~(~config.allowTransparency /\ texture.hasTransparency)
    /\ ~(config.maxVariance # null
         /\ calculateColorVariance(texture) < Fixed(config.maxVariance))

\* the three "continue" tests and the variance test of the filter loop
passesFilters(texture, valid, config) ==
    /\ texture.textureId \in valid
    /\ ~(config.maxColorCount # null /\ texture.colorCount > config.maxColorCount)
    /\ ~(~config.allowTransparency /\ texture.hasTransparency)
    /\ ~(config.maxVariance # null
         /\ calculateColorVariance(texture) > Fixed(config.maxVariance))

\* mutant of depthOf: searchDepth is not read
depthOfUnlimited(config) == Infinity

\* CONFIG.searchDepth ?? Infinity
depthOf(config) == IF config.searchDepth = null THEN Infinity ELSE config.searchDepth

RECURSIVE pushCandidates(_, _, _, _)
\* the filter loop over texture_palette, in palette order
pushCandidates(palette, valid, config, candidates) ==
    IF palette = << >> THEN candidates
    ELSE LET texture == Head(palette)
             perceivedColor == calculatePerceivedColor(texture, depthOf(config))
         IN  IF passesFilters(texture, valid, config) /\ perceivedColor # nullColor
             THEN pushCandidates(Tail(palette), valid, config,
                      Append(candidates,
                             [textureInfo |-> texture, perceivedColor |-> perceivedColor]))
             ELSE pushCandidates(Tail(palette), valid, config, candidates)

\* mutant of loadAndPrepareCandidates: an empty list is returned, not thrown
loadAndPrepareCandidatesEmpty(textureData, config) ==
    IF config.faceDirection \notin DOMAIN textureData.face_index
    THEN [threw |-> TRUE, candidates |-> << >>]
    ELSE [threw |-> FALSE,
          candidates |->
              pushCandidates(textureData.texture_palette,
                  validTextureIdsForFace(textureData.face_index[config.faceDirection]),
                  config, << >>)]

\* the value returned, or threw = TRUE for either "throw new Error"
loadAndPrepareCandidates(textureData, config) ==
    IF config.faceDirection \notin DOMAIN textureData.face_index
    THEN [threw |-> TRUE, candidates |-> << >>]
    ELSE LET candidates ==
                 pushCandidates(textureData.texture_palette,
                     validTextureIdsForFace(textureData.face_index[config.faceDirection]),
                     config, << >>)
         IN  IF Len(candidates) = 0 THEN [threw |-> TRUE, candidates |-> << >>]
             ELSE [threw |-> FALSE, candidates |-> candidates]

(***************************************************************************)
(* Colour Matcher                                                          *)
(***************************************************************************)
textureSwitchThreshold == Fixed(15)

\* mutant of isCloser: a later candidate at the same distance replaces the best
isCloserOrEqual(distance, minDistance) == distance <= minDistance

\* if (distance < minDistance)
isCloser(distance, minDistance) == distance < minDistance

RECURSIVE nearest(_, _, _, _, _)
\* the scan for the nearest candidate: index of the best so far (0 for
\* none) and its distance
nearest(pixelColor, candidates, i, best, minDistance) ==
    IF i > Len(candidates) THEN [best |-> best, minDistance |-> minDistance]
    ELSE LET distance == colorDistance(pixelColor, candidates[i].perceivedColor)
         IN  IF isCloser(distance, minDistance)
             THEN nearest(pixelColor, candidates, i + 1, i, distance)
             ELSE nearest(pixelColor, candidates, i + 1, best, minDistance)

\* findBestMatch of the static script: the texture id of the texture
\* returned, null for a null return
findBestMatch(pixelColor, candidates) ==
    LET n == nearest(pixelColor, candidates, 1, 0, Infinity)
    IN  IF n.best = 0 THEN null ELSE candidates[n.best].textureInfo.textureId

\* mutant of findCandidate: the previous texture is never found
findCandidateNone(candidates, previousTextureId) == 0

\* candidates.find(c => c.textureInfo.textureId === previousTextureId): the
\* index of the first such candidate, 0 for undefined
findCandidate(candidates, previousTextureId) ==
    LET at == {i \in 1..Len(candidates) :
                   candidates[i].textureInfo.textureId = previousTextureId}
    IN  IF at = {} THEN 0 ELSE CHOOSE i \in at : \A j \in at : i <= j

\* mutant of worthSwitching: the previous texture is kept whatever the gain
worthSwitchingNever(improvement) == FALSE

\* mutant of worthSwitching: an improvement equal to the threshold switches
worthSwitchingAtThreshold(improvement) == improvement >= textureSwitchThreshold

\* improvement > CONFIG.textureSwitchThreshold
worthSwitching(improvement) == improvement > textureSwitchThreshold

\* findBestMatch of the sequence script
findBestMatchSeq(pixelColor, candidates, previousTextureId) ==
    LET n == nearest(pixelColor, candidates, 1, 0, Infinity)
        bestOverallMatch == n.best
        previousCandidate == findCandidate(candidates, previousTextureId)
    IN  IF bestOverallMatch = 0 THEN null
        ELSE IF previousTextureId = null
        THEN candidates[bestOverallMatch].textureInfo.textureId
        ELSE IF candidates[bestOverallMatch].textureInfo.textureId = previousTextureId
        THEN candidates[bestOverallMatch].textureInfo.textureId
        ELSE IF previousCandidate = 0
        THEN candidates[bestOverallMatch].textureInfo.textureId
        ELSE LET previousMatchDistance ==
                     colorDistance(pixelColor, candidates[previousCandidate].perceivedColor)
                 improvement == previousMatchDistance - n.minDistance
             IN  IF worthSwitching(improvement)
                 THEN candidates[bestOverallMatch].textureInfo.textureId
                 ELSE candidates[previousCandidate].textureInfo.textureId

(***************************************************************************)
(* Blueprint Encoder                                                       *)
(***************************************************************************)
UNICODE_PRIVATE_USE_START == 57344

\* String.fromCodePoint(charCode), as its UTF-16 code units
fromCodePoint(charCode) ==
    IF charCode < 65536 THEN <<charCode>>
    ELSE << 55296 + ((charCode - 65536) \div 1024), 56320 + ((charCode - 65536) % 1024) >>

\* mutant of cellBlockId: the last owner stands for the texture
cellBlockIdLast(textureId, texturePalette) ==
    IF textureId # null
       /\ textureId + 1 \in DOMAIN texturePalette
       /\ Len(texturePalette[textureId + 1].blockIds) > 0
    THEN texturePalette[textureId + 1].blockIds[Len(texturePalette[textureId + 1].blockIds)]
    ELSE 0

\* the block id written for one cell
cellBlockId(textureId, texturePalette) ==
    IF textureId # null
       /\ textureId + 1 \in DOMAIN texturePalette
       /\ Len(texturePalette[textureId + 1].blockIds) > 0
    THEN texturePalette[textureId + 1].blockIds[1]
    ELSE 0

RECURSIVE joinCells(_, _, _)
\* the two loops and stringBuilder.join(''): cells k.. of the grid, row by row
joinCells(choicesGrid, texturePalette, k) ==
    LET height == Len(choicesGrid)
        width == Len(choicesGrid[1])
    IN  IF k >= width * height THEN << >>
        ELSE fromCodePoint(UNICODE_PRIVATE_USE_START
                           + cellBlockId(choicesGrid[(k \div width) + 1][(k % width) + 1],
                                         texturePalette))
             \o joinCells(choicesGrid, texturePalette, k + 1)

\* the two files generateBlueprintFiles writes: nothing for a grid without rows
generateBlueprintFiles(choicesGrid, texturePalette) ==
    IF Len(choicesGrid) = 0 THEN [txt |-> NoFile, json |-> NoFile]
    ELSE [txt |-> << joinCells(choicesGrid, texturePalette, 0) >>,
          json |-> << [width |-> Len(choicesGrid[1]), height |-> Len(choicesGrid)] >>]

(***************************************************************************)
(* Bounds and inputs                                                       *)
(***************************************************************************)
\* most frames in an animated input
MaxFrames == 3

\* most cells (width x height) of a resized frame
MaxCells == 2

\* most pixels of all the frames of one job together
MaxPixels == 4

\* the sizes of the resized source image ("blueprint")
FrameSizes ==
    {size \in [width : 1..MaxCells, height : 1..MaxCells] : size.width * size.height <= MaxCells}

\* the pixel colours a source image may hold
PixelColors ==
    { Opaque(0, 0, 0), Opaque(20, 0, 0), [r |-> 20, g |-> 0, b |-> 0, a |-> 0],
      Opaque(25, 0, 0), Opaque(15, 20, 0) }

\* the CONFIG literal of the static script and of the sequence script
StaticConfig ==
    [faceDirection |-> "front", maxVariance |-> 20, searchDepth |-> null,
     maxColorCount |-> null, allowTransparency |-> FALSE]

SequenceConfig ==
    [faceDirection |-> "back", maxVariance |-> 20, searchDepth |-> null,
     maxColorCount |-> null, allowTransparency |-> FALSE]

\* the configurations a job is run with: the literal, with the face and the
\* variance limit edited
JobConfigs(literal) ==
    {[literal EXCEPT !.faceDirection = f, !.maxVariance = v] :
        f \in {"front", "back", "left", "up"}, v \in {20, null}}

\* the configurations the filter is applied to on its own
AllConfigs ==
    [faceDirection : {"front", "back", "top", "up"},
     maxVariance : {null, 0, 5, 10, 20},
     searchDepth : {null, 0, 1, 2},
     maxColorCount : {null, 0, 1, 2},
     allowTransparency : BOOLEAN]

\* the block maps whose index the jobs are run on
JobMapDatas ==
    {[k \in keys |-> BlockPool[k]] :
        keys \in { {<<2>>, <<3, 0>>}, {<<1, 2>>, <<3, 1>>}, {<<1>>, <<7>>}, DOMAIN BlockPool }}

(***************************************************************************)
(* State                                                                   *)
(***************************************************************************)
VARIABLES
    mapData,              \* block_texture_map.json
    indexer,              \* the locals of the indexer's main()
    indexFile,            \* 1_texture_index.json
    blockIdListFile,      \* 2_texture_index_available_block_ids.json
    includedIdsFile,      \* included_block_ids.json
    script,               \* the bloxelizer script run: "static", "sequence" or "none"
    isGif,                \* sequence script: the input is a .gif
    frameCount,           \* frameData.length (1 for a still image)
    frameSize,            \* width and height of the resized frame
    CONFIG,
    pc,                   \* where the job's main() stands
    candidates,
    frameIdx,             \* i of the frame loop
    cell,                 \* y * width + x of the pixel loops
    currentFrameChoices,  \* choicesGrid in the static script
    previousFrameChoices,
    colorMatchCache,
    blueprintTxt,         \* <outputBase>.txt
    blueprintJson,        \* <outputBase>.json
    imageOut,             \* frames written to <outputBase>.png or added to the .gif
    lastMatch,            \* history: the pixel matched last, what was passed and returned
    lastCompleted,        \* history: the grid processImageFrame returned last
    encodedFrames,        \* history: the frames generateBlueprintFiles was called for
    framePixels,          \* history: the pixels read from the frame in hand, by cell
    previousFramePixels,  \* history: the pixels of the frame before it
    call                  \* a function applied on its own: arguments and result

indexerVars == <<mapData, indexer, indexFile, blockIdListFile, includedIdsFile>>

jobVars ==
    <<script, isGif, frameCount, frameSize, CONFIG, pc, candidates, frameIdx, cell,
      currentFrameChoices, previousFrameChoices, colorMatchCache, blueprintTxt,
      blueprintJson, imageOut, lastMatch, lastCompleted, encodedFrames, framePixels,
      previousFramePixels>>

vars == <<indexerVars, jobVars, call>>

NoMatch ==
    [frame |-> -1, cell |-> -1, pixelColorInt |-> -1, previousChoiceId |-> null,
     textureId |-> null, cacheHit |-> FALSE]

NoCall == [fn |-> "none"]

\* Array(height).fill(null).map(() => Array(width).fill(null))
emptyGrid(size) == [y \in 1..size.height |-> [x \in 1..size.width |-> null]]

\* no job is running
JobIdle ==
    /\ script = "none" /\ isGif = FALSE /\ frameCount = 0
    /\ frameSize = [width |-> 0, height |-> 0]
    /\ CONFIG = StaticConfig /\ pc = "idle" /\ candidates = << >>
    /\ frameIdx = 0 /\ cell = 0
    /\ currentFrameChoices = << >> /\ previousFrameChoices = << >>
    /\ colorMatchCache = << >>
    /\ blueprintTxt = NoFile /\ blueprintJson = NoFile /\ imageOut = 0
    /\ lastMatch = NoMatch /\ lastCompleted = << >> /\ encodedFrames = << >>
    /\ framePixels = << >> /\ previousFramePixels = << >>

\* the indexer has run on mapData and written its files
Indexed ==
    /\ indexer = runIndexer(mapData)
    /\ indexFile = << finalData(indexer) >>
    /\ blockIdListFile = << indexer.includedBlockIds >>
    /\ includedIdsFile = NoFile

(***************************************************************************)
(* The indexer and the included-block-id lister, run on one block map      *)
(***************************************************************************)
InitIndexer ==
    /\ mapData \in MapDatas
    /\ indexer = IndexerStart
    /\ indexFile = NoFile /\ blockIdListFile = NoFile /\ includedIdsFile = NoFile
    /\ JobIdle
    /\ call = NoCall

IndexBlock ==
    /\ indexer.pc = "blocks"
    /\ indexer.blockIdx <= Len(ObjectEntries(mapData))
    /\ indexer' = indexBlock(indexer, mapData)
    /\ UNCHANGED <<mapData, indexFile, blockIdListFile, includedIdsFile, jobVars, call>>

IndexFace ==
    /\ indexer.pc = "faces"
    /\ indexer' = indexFace(indexer, mapData)
    /\ UNCHANGED <<mapData, indexFile, blockIdListFile, includedIdsFile, jobVars, call>>

IndexFinish ==
    /\ indexer.pc = "blocks"
    /\ indexer.blockIdx > Len(ObjectEntries(mapData))
    /\ indexer' = indexFinish(indexer)
    /\ blockIdListFile' = << indexer'.includedBlockIds >>
    /\ indexFile' = << finalData(indexer') >>
    /\ UNCHANGED <<mapData, includedIdsFile, jobVars, call>>

\* generate_included_blockids.js, from reading the map to writing the list
GenerateIds ==
    /\ includedIdsFile = NoFile
    /\ includedIdsFile' = << generateIncludedBlockIds(mapData) >>
    /\ UNCHANGED <<mapData, indexer, indexFile, blockIdListFile, jobVars, call>>

NextIndexer == IndexBlock \/ IndexFace \/ IndexFinish \/ GenerateIds

SpecIndexer == InitIndexer /\ [][NextIndexer]_vars

(***************************************************************************)
(* The bloxelizer jobs: the static script (first script) and the sequence  *)
(* script (second script), each run on an index the indexer wrote.         *)
(***************************************************************************)
\* JSON.parse of the index file
textureData == indexFile[1]

\* let previousFrameChoices = null
NoGrid == << >>

rowOf(k) == (k \div frameSize.width) + 1

colOf(k) == (k % frameSize.width) + 1

cellCount == frameSize.width * frameSize.height

\* mutant of matchCached: the cache is keyed by the alpha byte alone
matchCachedByAlpha(cache, pixelColorInt, cands) ==
    IF (pixelColorInt % 256) \in DOMAIN cache /\ cache[pixelColorInt % 256] # null
    THEN [textureId |-> cache[pixelColorInt % 256], cache |-> cache, cacheHit |-> TRUE]
    ELSE LET best == findBestMatch(intToRGBA(pixelColorInt), cands)
         IN  [textureId |-> best,
              cache |-> ((pixelColorInt % 256) :> best) @@ cache,
              cacheHit |-> FALSE]

\* the cache test and the two branches of the static pixel loop
matchCached(cache, pixelColorInt, cands) ==
    IF pixelColorInt \in DOMAIN cache /\ cache[pixelColorInt] # null
    THEN [textureId |-> cache[pixelColorInt], cache |-> cache, cacheHit |-> TRUE]
    ELSE LET best == findBestMatch(intToRGBA(pixelColorInt), cands)
         IN  [textureId |-> best,
              cache |-> (pixelColorInt :> best) @@ cache,
              cacheHit |-> FALSE]

\* mutant of previousChoiceIdAt: the previous frame is never consulted
previousChoiceIdNever(previous, y, x) == null

\* previousFrameChoices ? previousFrameChoices[y][x] : null
previousChoiceIdAt(previous, y, x) == IF previous # NoGrid THEN previous[y][x] ELSE null

\* mutant of recordChoice: the test is on the id, so texture 0 is not recorded
recordChoiceNonZero(grid, y, x, textureId) ==
    IF textureId # null /\ textureId # 0 THEN [grid EXCEPT ![y][x] = textureId] ELSE grid

\* if (bestTextureInfo) grid[y][x] = bestTextureInfo.textureId
recordChoice(grid, y, x, textureId) ==
    IF textureId # null THEN [grid EXCEPT ![y][x] = textureId] ELSE grid

\* mutant of encodesBlueprint: the blueprint is written for every frame
encodesBlueprintAlways(i) == TRUE

\* the frames of a gif generateBlueprintFiles is called for: if (i === 0)
encodesBlueprint(i) == i = 0

InitJob ==
    /\ mapData \in JobMapDatas
    /\ Indexed
    /\ script \in {"static", "sequence"}
    /\ isGif \in (IF script = "sequence" THEN BOOLEAN ELSE {FALSE})
    /\ frameCount \in (IF isGif THEN 1..MaxFrames ELSE {1})
    /\ frameSize \in {size \in FrameSizes :
                        frameCount * size.width * size.height <= MaxPixels}
    /\ CONFIG \in JobConfigs(IF script = "static" THEN StaticConfig ELSE SequenceConfig)
    /\ pc = "load"
    /\ candidates = << >>
    /\ frameIdx = 0 /\ cell = 0
    /\ currentFrameChoices = << >> /\ previousFrameChoices = NoGrid
    /\ colorMatchCache = << >>
    /\ blueprintTxt = NoFile /\ blueprintJson = NoFile /\ imageOut = 0
    /\ lastMatch = NoMatch /\ lastCompleted = << >> /\ encodedFrames = << >>
    /\ framePixels = << >> /\ previousFramePixels = << >>
    /\ call = NoCall

\* main() of either script up to the first pixel: read the index, prepare the
\* candidates (process.exit(1) when that throws), read and resize the input
Load ==
    /\ pc = "load"
    /\ LET r == loadAndPrepareCandidates(textureData, CONFIG)
       IN  IF r.threw
           THEN /\ pc' = "exit1"
                /\ UNCHANGED <<candidates, currentFrameChoices>>
           ELSE /\ pc' = "pixels"
                /\ candidates' = r.candidates
                /\ currentFrameChoices' = emptyGrid(frameSize)
    /\ UNCHANGED <<indexerVars, script, isGif, frameCount, frameSize, CONFIG, frameIdx, cell,
                   previousFrameChoices, colorMatchCache, blueprintTxt, blueprintJson,
                   imageOut, lastMatch, lastCompleted, encodedFrames, framePixels,
                   previousFramePixels, call>>

\* one pass of the static script's pixel loops
StaticPixel ==
    /\ script = "static" /\ pc = "pixels"
    /\ \E px \in PixelColors :
         LET pixelColorInt == getPixelColor(px)
             m == matchCached(colorMatchCache, pixelColorInt, candidates)
         IN  /\ colorMatchCache' = m.cache
             /\ currentFrameChoices' =
                    recordChoice(currentFrameChoices, rowOf(cell), colOf(cell), m.textureId)
             /\ lastMatch' = [frame |-> 0, cell |-> cell, pixelColorInt |-> pixelColorInt,
                              previousChoiceId |-> null, textureId |-> m.textureId,
                              cacheHit |-> m.cacheHit]
    /\ cell' = cell + 1
    /\ pc' = IF cell + 1 = cellCount THEN "encode" ELSE "pixels"
    /\ UNCHANGED <<indexerVars, script, isGif, frameCount, frameSize, CONFIG, candidates,
                   frameIdx, previousFrameChoices, blueprintTxt, blueprintJson, imageOut,
                   lastCompleted, encodedFrames, framePixels, previousFramePixels, call>>

\* the static script after its loops: generateBlueprintFiles, finalImage.write
StaticFinish ==
    /\ script = "static" /\ pc = "encode"
    /\ LET files == generateBlueprintFiles(currentFrameChoices, textureData.texture_palette)
       IN  /\ blueprintTxt' = files.txt
           /\ blueprintJson' = files.json
    /\ encodedFrames' = Append(encodedFrames, [frame |-> 0, grid |-> currentFrameChoices])
    /\ imageOut' = 1
    /\ pc' = "done"
    /\ UNCHANGED <<indexerVars, script, isGif, frameCount, frameSize, CONFIG, candidates,
                   frameIdx, cell, currentFrameChoices, previousFrameChoices, colorMatchCache,
                   lastMatch, lastCompleted, framePixels, previousFramePixels, call>>

\* one pass of processImageFrame's pixel loops
SeqPixel ==
    /\ script = "sequence" /\ pc = "pixels"
    /\ \E px \in PixelColors :
         LET pixelColorInt == getPixelColor(px)
             previousChoiceId ==
                 previousChoiceIdAt(previousFrameChoices, rowOf(cell), colOf(cell))
             best == findBestMatchSeq(intToRGBA(pixelColorInt), candidates, previousChoiceId)
         IN  /\ currentFrameChoices' =
                    recordChoice(currentFrameChoices, rowOf(cell), colOf(cell), best)
             /\ lastMatch' = [frame |-> frameIdx, cell |-> cell,
                              pixelColorInt |-> pixelColorInt,
                              previousChoiceId |-> previousChoiceId, textureId |-> best,
                              cacheHit |-> FALSE]
             /\ framePixels' = Append(framePixels, pixelColorInt)
    /\ cell' = cell + 1
    /\ pc' = IF cell + 1 = cellCount THEN "frameEnd" ELSE "pixels"
    /\ UNCHANGED <<indexerVars, script, isGif, frameCount, frameSize, CONFIG, candidates,
                   frameIdx, previousFrameChoices, colorMatchCache, blueprintTxt,
                   blueprintJson, imageOut, lastCompleted, encodedFrames,
                   previousFramePixels, call>>

\* the gif loop after processImageFrame returns: keep the grid, write the
\* blueprint for the first frame, add the frame, go on or finish
SeqFrameEnd ==
    /\ script = "sequence" /\ isGif /\ pc = "frameEnd"
    /\ previousFrameChoices' = currentFrameChoices
    /\ lastCompleted' = currentFrameChoices
    /\ previousFramePixels' = framePixels
    /\ IF encodesBlueprint(frameIdx)
       THEN LET files ==
                    generateBlueprintFiles(currentFrameChoices, textureData.texture_palette)
            IN  /\ blueprintTxt' = files.txt
                /\ blueprintJson' = files.json
                /\ encodedFrames' =
                       Append(encodedFrames, [frame |-> frameIdx, grid |-> currentFrameChoices])
       ELSE UNCHANGED <<blueprintTxt, blueprintJson, encodedFrames>>
    /\ imageOut' = imageOut + 1
    /\ frameIdx' = frameIdx + 1
    /\ IF frameIdx + 1 < frameCount
       THEN /\ pc' = "pixels"
            /\ cell' = 0
            /\ currentFrameChoices' = emptyGrid(frameSize)
            /\ framePixels' = << >>
       ELSE /\ pc' = "done"
            /\ UNCHANGED <<cell, currentFrameChoices, framePixels>>
    /\ UNCHANGED <<indexerVars, script, isGif, frameCount, frameSize, CONFIG, candidates,
                   colorMatchCache, lastMatch, call>>

\* the sequence script on a still image, after processImageFrame returns
SeqStillEnd ==
    /\ script = "sequence" /\ ~isGif /\ pc = "frameEnd"
    /\ lastCompleted' = currentFrameChoices
    /\ LET files == generateBlueprintFiles(currentFrameChoices, textureData.texture_palette)
       IN  /\ blueprintTxt' = files.txt
           /\ blueprintJson' = files.json
    /\ encodedFrames' = Append(encodedFrames, [frame |-> 0, grid |-> currentFrameChoices])
    /\ imageOut' = 1
    /\ pc' = "done"
    /\ UNCHANGED <<indexerVars, script, isGif, frameCount, frameSize, CONFIG, candidates,
                   frameIdx, cell, currentFrameChoices, previousFrameChoices, colorMatchCache,
                   lastMatch, framePixels, previousFramePixels, call>>

Next == Load \/ StaticPixel \/ StaticFinish \/ SeqPixel \/ SeqFrameEnd \/ SeqStillEnd

Init == InitJob

Spec == Init /\ [][Next]_vars

(***************************************************************************)
(* The functions of the scripts applied on their own to an index the       *)
(* indexer wrote                                                           *)
(***************************************************************************)
\* the values CONFIG.searchDepth is given
SearchDepths == {null, 0, 1, 2, 3}

\* the grids of one size over the no-match value and the ids of a palette
GridsOver(size, palette) ==
    [1..size.height -> [1..size.width -> {null} \cup {palette[i].textureId : i \in 1..Len(palette)}]]

InitFn ==
    /\ mapData \in MapDatas
    /\ Indexed
    /\ JobIdle
    /\ call = NoCall

CallCalculatePerceivedColor ==
    /\ call = NoCall
    /\ \E i \in 1..Len(textureData.texture_palette), d \in SearchDepths :
         call' = [fn |-> "calculatePerceivedColor",
                  texture |-> textureData.texture_palette[i],
                  searchDepth |-> d,
                  result |-> calculatePerceivedColor(textureData.texture_palette[i],
                                                     depthOf([searchDepth |-> d]))]
    /\ UNCHANGED <<indexerVars, jobVars>>

CallLoadAndPrepareCandidates ==
    /\ call = NoCall
    /\ \E config \in AllConfigs :
         call' = [fn |-> "loadAndPrepareCandidates",
                  config |-> config,
                  result |-> loadAndPrepareCandidates(textureData, config)]
    /\ UNCHANGED <<indexerVars, jobVars>>

CallGenerateBlueprintFiles ==
    /\ call = NoCall
    /\ \E size \in FrameSizes :
         \E grid \in GridsOver(size, textureData.texture_palette) :
            call' = [fn |-> "generateBlueprintFiles",
                     choicesGrid |-> grid,
                     result |-> generateBlueprintFiles(grid, textureData.texture_palette)]
    /\ UNCHANGED <<indexerVars, jobVars>>

NextFn ==
    CallCalculatePerceivedColor \/ CallLoadAndPrepareCandidates \/ CallGenerateBlueprintFiles

SpecFn == InitFn /\ [][NextFn]_vars

(***************************************************************************)
(* Properties.  Distances are compared here on their squares, in whole     *)
(* numbers, independently of the fixed-point Sqrt the operators use.       *)
(***************************************************************************)
DistSq(c1, c2) ==
    (c1.r - c2.r) * (c1.r - c2.r) + (c1.g - c2.g) * (c1.g - c2.g)
        + (c1.b - c2.b) * (c1.b - c2.b)

\* sqrt(a) - sqrt(b) > t over the reals, for whole a, b, t >= 0
RootsDifferByMoreThan(a, b, t) ==
    LET d == a - b - t * t IN d > 0 /\ d * d > 4 * t * t * b

\* sqrt(a) - sqrt(b) = t over the reals
RootsDifferBy(a, b, t) ==
    LET d == a - b - t * t IN d >= 0 /\ d * d = 4 * t * t * b

SwitchThreshold == 15

CandidateIds == {candidates[i].textureInfo.textureId : i \in 1..Len(candidates)}

\* the squared distance from a colour to the candidate at a position
CandDistSq(target, i) == DistSq(target, candidates[i].perceivedColor)

\* the positions of the candidates no other candidate is nearer than
NearestPositions(target) ==
    {i \in 1..Len(candidates) :
        \A j \in 1..Len(candidates) : CandDistSq(target, i) <= CandDistSq(target, j)}

\* the first of them in the candidate list
FirstNearest(target) ==
    CHOOSE i \in NearestPositions(target) : \A j \in NearestPositions(target) : i <= j

PositionOfId(id) == CHOOSE i \in 1..Len(candidates) : candidates[i].textureInfo.textureId = id

LastTarget == intToRGBA(lastMatch.pixelColorInt)

\* C1: sequence-mode findBestMatch, when the previous texture P is a candidate
\* and the global nearest candidate B is another texture, returns B if and
\* only if dP - dB > textureSwitchThreshold, and P otherwise (also when
\* dP - dB equals the threshold).
C1_Hysteresis ==
    (script = "sequence" /\ lastMatch.frame >= 0
        /\ lastMatch.previousChoiceId \in CandidateIds
        /\ candidates[FirstNearest(LastTarget)].textureInfo.textureId
               # lastMatch.previousChoiceId)
    => LET B == FirstNearest(LastTarget)
           P == PositionOfId(lastMatch.previousChoiceId)
       IN  lastMatch.textureId =
               IF RootsDifferByMoreThan(CandDistSq(LastTarget, P), CandDistSq(LastTarget, B),
                                        SwitchThreshold)
               THEN candidates[B].textureInfo.textureId
               ELSE lastMatch.previousChoiceId

\* C1 witness: a pixel whose previous texture is exactly the threshold
\* further away than the nearest candidate, and is kept
C1_Witness ==
    /\ script = "sequence" /\ lastMatch.frame >= 1
    /\ lastMatch.previousChoiceId \in CandidateIds
    /\ candidates[FirstNearest(LastTarget)].textureInfo.textureId # lastMatch.previousChoiceId
    /\ RootsDifferBy(CandDistSq(LastTarget, PositionOfId(lastMatch.previousChoiceId)),
                     CandDistSq(LastTarget, FirstNearest(LastTarget)), SwitchThreshold)
    /\ lastMatch.textureId = lastMatch.previousChoiceId

\* the place of a candidate's texture in the palette
PalettePosition(i) ==
    CHOOSE k \in 1..Len(textureData.texture_palette) :
        textureData.texture_palette[k] = candidates[i].textureInfo

\* C2: with no previous choice findBestMatch returns a candidate at minimal
\* Euclidean RGB distance from the target, the first in palette order among
\* those at that distance; the candidate list keeps the palette's order.
C2_NearestFirst ==
    (lastMatch.frame >= 0 /\ lastMatch.previousChoiceId = null /\ ~lastMatch.cacheHit)
    => /\ Len(candidates) > 0
       /\ \A i, j \in 1..Len(candidates) : i < j => PalettePosition(i) < PalettePosition(j)
       /\ lastMatch.textureId = candidates[FirstNearest(LastTarget)].textureInfo.textureId

\* C2 witness: two candidates share the least distance and the first is returned
C2_Witness ==
    /\ lastMatch.frame >= 0 /\ lastMatch.previousChoiceId = null /\ ~lastMatch.cacheHit
    /\ Cardinality(NearestPositions(LastTarget)) >= 2
    /\ lastMatch.textureId = candidates[FirstNearest(LastTarget)].textureInfo.textureId

\* a block the indexer is to leave out: a slab by name, or an id of the fixed set
ExcludedBlock(key) == Includes(mapData[key].name, SlabMarker) \/ key \in idsToSkip

ExcludedIds == {parseInt(key) : key \in {k \in DOMAIN mapData : ExcludedBlock(k)}}

\* the blocks, not excluded, one of whose faces resolves to a texture reference
OwnersOf(atlasFileIndex, textureIndexOnAtlas) ==
    {parseInt(key) : key \in
        {k \in DOMAIN mapData :
            /\ ~ExcludedBlock(k)
            /\ \E f \in 1..Len(mapData[k].faceMap) :
                 /\ mapData[k].faceMap[f][2] + 1 \in DOMAIN mapData[k].texturePalette
                 /\ mapData[k].texturePalette[mapData[k].faceMap[f][2] + 1]
                        = Tex(atlasFileIndex, textureIndexOnAtlas)}}

\* the indexer's part of C3: no excluded block in includedBlockIds, in a
\* texture's owners or blockIds, and no texture in the palette but for a
\* block that is not excluded
C3_IndexerExclusion ==
    /\ Range(indexer.includedBlockIds) \cap ExcludedIds = {}
    /\ blockIdListFile # NoFile => Range(blockIdListFile[1]) \cap ExcludedIds = {}
    /\ \A t \in DOMAIN indexer.textureIdToBlockIds :
           Range(indexer.textureIdToBlockIds[t]) \cap ExcludedIds = {}
    /\ indexFile # NoFile =>
           \A i \in 1..Len(indexFile[1].texture_palette) :
               Range(indexFile[1].texture_palette[i].blockIds) \cap ExcludedIds = {}
    /\ \A i \in 1..Len(indexer.texturePalette) :
           OwnersOf(indexer.texturePalette[i].atlasFileIndex,
                    indexer.texturePalette[i].textureIndexOnAtlas) # {}

\* C3: a block whose name contains "Slab" or whose id is in the fixed
\* exclusion set appears in no included-block-id list (the indexer's and the
\* one generate_included_blockids writes), in no texture's blockIds, and adds
\* no texture to the palette.
C3_Exclusion ==
    /\ C3_IndexerExclusion
    /\ includedIdsFile # NoFile => Range(includedIdsFile[1]) \cap ExcludedIds = {}

SetMin(S) == CHOOSE m \in S : \A o \in S : m <= o

C5_EncoderPerFrame ==
    (script = "sequence" /\ isGif /\ pc = "done")
    => /\ Len(encodedFrames) = frameCount
       /\ \A k \in 1..Len(encodedFrames) : encodedFrames[k].frame = k - 1

\* C5 amended: for an animated sequence the encoder runs once only, when
\* frame 0 has been matched, on frame 0's grid; the blueprint files hold that
\* encoding from then on.
C5_EncoderFirstFrameOnly ==
    (script = "sequence" /\ isGif)
    => /\ frameIdx = 0 => (encodedFrames = << >> /\ blueprintTxt = NoFile)
       /\ frameIdx >= 1 =>
            /\ Len(encodedFrames) = 1
            /\ encodedFrames[1].frame = 0
            /\ blueprintTxt =
                   << joinCells(encodedFrames[1].grid, textureData.texture_palette, 0) >>
            /\ blueprintJson = << frameSize >>
       /\ frameIdx = 1 => encodedFrames[1].grid = lastCompleted

\* C5 witness: a sequence of two frames or more is done, with one encoder run
C5_Witness ==
    /\ script = "sequence" /\ isGif /\ pc = "done" /\ frameCount >= 2
    /\ Len(encodedFrames) = 1
    /\ imageOut = frameCount

\* C6: frame 0 is matched with no previous choice, and every pixel of frame
\* k > 0 with the texture id frame k-1's completed grid holds at its place.
C6_PreviousFrameChoices ==
    (script = "sequence" /\ (pc = "frameEnd" \/ (pc = "pixels" /\ cell > 0)))
    => /\ lastMatch.frame = frameIdx
       /\ lastMatch.cell = cell - 1
       /\ IF frameIdx = 0
          THEN lastMatch.previousChoiceId = null /\ lastCompleted = << >>
          ELSE /\ \A y \in 1..frameSize.height, x \in 1..frameSize.width :
                     lastCompleted[y][x] # null
               /\ lastMatch.previousChoiceId
                      = lastCompleted[rowOf(lastMatch.cell)][colOf(lastMatch.cell)]

\* C6 witness: the second cell of a later frame is matched with the choice
\* the frame before made there, which differs from the choice of its first cell
C6_Witness ==
    /\ script = "sequence" /\ pc = "frameEnd" /\ frameIdx >= 1
    /\ lastMatch.cell = 1
    /\ lastMatch.previousChoiceId = lastCompleted[rowOf(1)][colOf(1)]
    /\ lastCompleted[rowOf(0)][colOf(0)] # lastCompleted[rowOf(1)][colOf(1)]
    /\ currentFrameChoices # lastCompleted

\* a limit a is at least as loose as a limit b (null is the loosest)
AtLeastAsLoose(a, b) == a = null \/ (b # null /\ a >= b)

\* the candidates the filter keeps under a configuration, thrown or not
KeptUnder(config) ==
    IF config.faceDirection \notin DOMAIN textureData.face_index THEN {}
    ELSE Range(pushCandidates(textureData.texture_palette,
                   validTextureIdsForFace(textureData.face_index[config.faceDirection]),
                   config, << >>))

\* C7: with only maxVariance or only maxColorCount changed, the candidates
\* under the tighter limit are among those under the looser one, and no more
\* in number.
C7_FilterMonotonic ==
    call.fn = "loadAndPrepareCandidates"
    => /\ Range(call.result.candidates) \subseteq KeptUnder(call.config)
       /\ \A v \in {c.maxVariance : c \in AllConfigs} :
            AtLeastAsLoose(v, call.config.maxVariance)
            => /\ Range(call.result.candidates)
                     \subseteq KeptUnder([call.config EXCEPT !.maxVariance = v])
               /\ Len(call.result.candidates)
                     <= Cardinality(KeptUnder([call.config EXCEPT !.maxVariance = v]))
       /\ \A n \in {c.maxColorCount : c \in AllConfigs} :
            AtLeastAsLoose(n, call.config.maxColorCount)
            => /\ Range(call.result.candidates)
                     \subseteq KeptUnder([call.config EXCEPT !.maxColorCount = n])
               /\ Len(call.result.candidates)
                     <= Cardinality(KeptUnder([call.config EXCEPT !.maxColorCount = n]))

\* C7 witness: a limit on the variance keeps some candidates and drops
\* others that a looser limit on the variance keeps
C7_Witness ==
    /\ call.fn = "loadAndPrepareCandidates"
    /\ call.config.maxVariance # null
    /\ Len(call.result.candidates) >= 1
    /\ \E v \in {c.maxVariance : c \in AllConfigs} :
         /\ v # null /\ v > call.config.maxVariance
         /\ Len(call.result.candidates)
                < Cardinality(KeptUnder([call.config EXCEPT !.maxVariance = v]))

\* the five conditions on a texture, stated on the index: on the face, within
\* the colour-count limit, transparency allowed, within the variance limit,
\* and a colour that is not transparent among the top searchDepth entries
MeetsAllFive(texture, config) ==
    /\ \E h \in DOMAIN textureData.face_index[config.faceDirection] :
         Contains(textureData.face_index[config.faceDirection][h], texture.textureId)
    /\ config.maxColorCount = null \/ texture.colorCount <= config.maxColorCount
    /\ config.allowTransparency \/ ~texture.hasTransparency
    /\ config.maxVariance = null
         \/ calculateColorVariance(texture) <= Fixed(config.maxVariance)
    /\ \E i \in 1..Len(texture.colorHexes) :
         /\ config.searchDepth = null \/ i <= config.searchDepth
         /\ texture.colorHexes[i] # TransparentHex

\* the job cannot proceed: the face is not in the index, or no texture meets
\* the five conditions
NothingToMatchWith ==
    \/ CONFIG.faceDirection \notin DOMAIN textureData.face_index
    \/ \A i \in 1..Len(textureData.texture_palette) :
         ~MeetsAllFive(textureData.texture_palette[i], CONFIG)

\* C8: if the face is absent from the index or the filter leaves no
\* candidate, the job aborts: no pixel is matched and no file is written.
C8_AbortOnNoCandidates ==
    pc # "load"
    => /\ pc = "exit1" <=> NothingToMatchWith
       /\ pc = "exit1" =>
            /\ lastMatch = NoMatch /\ currentFrameChoices = << >> /\ cell = 0
            /\ blueprintTxt = NoFile /\ blueprintJson = NoFile
            /\ imageOut = 0 /\ encodedFrames = << >>

\* C8 witness: the face is in the index and the palette has textures, yet
\* none passes the filter, and the job has aborted
C8_Witness ==
    /\ pc = "exit1"
    /\ CONFIG.faceDirection \in DOMAIN textureData.face_index
    /\ Len(textureData.texture_palette) > 0
    /\ blueprintTxt = NoFile /\ imageOut = 0

\* C9: in the static script the texture id recorded for a pixel, from the
\* cache or not, is the one findBestMatch gives for the pixel's colour.
C9_CacheEquivalence ==
    (script = "static" /\ lastMatch.frame >= 0)
    => /\ lastMatch.textureId = findBestMatch(LastTarget, candidates)
       /\ lastMatch.textureId = candidates[FirstNearest(LastTarget)].textureInfo.textureId
       /\ currentFrameChoices[rowOf(lastMatch.cell)][colOf(lastMatch.cell)]
              = lastMatch.textureId

\* C9 witness: a pixel answered from the cache while the cache holds the
\* answers for two colours
C9_Witness ==
    /\ script = "static" /\ lastMatch.cacheHit
    /\ lastMatch.textureId # null

\* a texture of one colour, fully opaque
SingleOpaqueColor(texture) ==
    Len(texture.colorHexes) = 1 /\ ~texture.hasTransparency

\* the colour of its pixels in the atlas
PixelColorOf(texture) ==
    LET px == cropTexture(texture)[1] IN [r |-> px.r, g |-> px.g, b |-> px.b]

\* C10 as stated: for a texture of a single fully-opaque colour
\* calculatePerceivedColor returns that colour for every searchDepth, 0 and
\* null included.
C10_UniformColorAnyDepth ==
    (call.fn = "calculatePerceivedColor" /\ SingleOpaqueColor(call.texture))
    => call.result = PixelColorOf(call.texture)

\* C10 amended: it returns that colour for every searchDepth of 1 or more and
\* for null; for searchDepth 0 it returns null.
C10_UniformColorPositiveDepth ==
    (call.fn = "calculatePerceivedColor" /\ SingleOpaqueColor(call.texture))
    => call.result = IF call.searchDepth = 0 THEN nullColor ELSE PixelColorOf(call.texture)

\* C10 witness: a uniform texture that is not black, at searchDepth 1
C10_Witness ==
    /\ call.fn = "calculatePerceivedColor" /\ SingleOpaqueColor(call.texture)
    /\ call.searchDepth = 1
    /\ call.result = PixelColorOf(call.texture)
    /\ call.result.r > 0 /\ call.result.g > 0

RECURSIVE FaceReferences(_, _)
\* the texture references that the faces of a block resolve to, in the
\* order of the faces
FaceReferences(blockData, f) ==
    IF f > Len(blockData.faceMap) THEN << >>
    ELSE (IF blockData.faceMap[f][2] + 1 \in DOMAIN blockData.texturePalette
          THEN << blockData.texturePalette[blockData.faceMap[f][2] + 1] >>
          ELSE << >>) \o FaceReferences(blockData, f + 1)

RECURSIVE ReferencesUpTo(_, _)
\* the references of the faces the indexer has been through: all faces of
\* the blocks before blockIdx that are not excluded, and the faces before
\* faceIdx of the block at blockIdx while the inner loop is on it
ReferencesUpTo(b, s) ==
    IF b > Len(ObjectEntries(mapData)) \/ b > s.blockIdx THEN << >>
    ELSE LET key == ObjectEntries(mapData)[b][1]
             all == FaceReferences(mapData[key], 1)
             met == IF b < s.blockIdx THEN all
                    ELSE IF s.pc = "faces"
                    THEN FaceReferences([mapData[key] EXCEPT
                                    !.faceMap = SubSeq(@, 1, s.faceIdx - 1)], 1)
                    ELSE << >>
         IN  (IF ExcludedBlock(key) THEN << >> ELSE met) \o ReferencesUpTo(b + 1, s)

RECURSIVE FirstEncounters(_, _)
\* a sequence without its repetitions, each element at its first place
FirstEncounters(refs, seen) ==
    IF refs = << >> THEN seen
    ELSE FirstEncounters(Tail(refs),
                         IF Contains(seen, Head(refs)) THEN seen
                         ELSE Append(seen, Head(refs)))

\* the atlas reference of a palette texture
ReferenceOf(texture) == Tex(texture.atlasFileIndex, texture.textureIndexOnAtlas)

\* the palette is the references met so far, one texture for each, in the
\* order they were first met, and textureId is the array index
PaletteIsFirstEncounters(palette, s) ==
    LET firsts == FirstEncounters(ReferencesUpTo(1, s), << >>)
    IN  /\ Len(palette) = Len(firsts)
        /\ \A i \in 1..Len(palette) :
              /\ ReferenceOf(palette[i]) = firsts[i]
              /\ palette[i].textureId = i - 1
        /\ \A i, j \in 1..Len(palette) :
              ReferenceOf(palette[i]) = ReferenceOf(palette[j]) => i = j

\* C11: the palette holds exactly one texture for each distinct pair
\* (atlasFileIndex, textureIndexOnAtlas) that a face of a block that is not
\* excluded refers to, textureId is the position in the palette array, and
\* the ids follow the order of first encounter; so during the run and in the
\* index file.
C11_PaletteDedupe ==
    /\ PaletteIsFirstEncounters(indexer.texturePalette, indexer)
    /\ indexFile # NoFile =>
         /\ indexer.pc = "done"
         /\ PaletteIsFirstEncounters(indexFile[1].texture_palette, indexer)
         /\ {ReferenceOf(indexFile[1].texture_palette[i]) :
                 i \in 1..Len(indexFile[1].texture_palette)}
              = {Tex(a, t) : <<a, t>> \in
                    {<<a, t>> \in (0..1) \X (0..3) : OwnersOf(a, t) # {}}}

\* C11 witness: the index is written, two blocks that are not excluded
\* refer to one texture, and the palette has it once, among three or more
C11_Witness ==
    /\ indexFile # NoFile
    /\ Len(indexFile[1].texture_palette) >= 3
    /\ \E i \in 1..Len(indexFile[1].texture_palette) :
         Cardinality(OwnersOf(indexFile[1].texture_palette[i].atlasFileIndex,
                              indexFile[1].texture_palette[i].textureIndexOnAtlas)) >= 2
    /\ Len(ReferencesUpTo(1, indexer)) > Len(indexFile[1].texture_palette)

\* the palette textures that meet the five conditions, in palette order
MeetingAllFive(config) ==
    SelectSeq(textureData.texture_palette, LAMBDA texture : MeetsAllFive(texture, config))

\* C12: loadAndPrepareCandidates returns exactly the palette textures that
\* meet all five conditions (on the face, within maxColorCount, transparency
\* allowed or absent, within maxVariance, a colour that is not transparent
\* among the top searchDepth histogram entries): none else is returned and
\* none of them is dropped; it throws when the face is not in the index or
\* there is no such texture.
C12_ExactlyTheFive ==
    call.fn = "loadAndPrepareCandidates"
    => IF call.config.faceDirection \notin DOMAIN textureData.face_index
       THEN call.result.threw
       ELSE /\ call.result.threw <=> MeetingAllFive(call.config) = << >>
            /\ ~call.result.threw =>
                 /\ Len(call.result.candidates) = Len(MeetingAllFive(call.config))
                 /\ \A i \in 1..Len(call.result.candidates) :
                      /\ call.result.candidates[i].textureInfo
                             = MeetingAllFive(call.config)[i]
                      /\ call.result.candidates[i].perceivedColor # nullColor

\* C12 witness: a texture is returned while a texture that meets
\* the first four conditions is left out, its top searchDepth entries being
\* transparent
C12_Witness ==
    /\ call.fn = "loadAndPrepareCandidates"
    /\ ~call.result.threw
    /\ Len(call.result.candidates) >= 1
    /\ call.config.searchDepth # null /\ call.config.searchDepth >= 1
    /\ \E i \in 1..Len(textureData.texture_palette) :
         /\ MeetsAllFive(textureData.texture_palette[i],
                         [call.config EXCEPT !.searchDepth = null])
         /\ \A j \in 1..Len(call.result.candidates) :
              call.result.candidates[j].textureInfo # textureData.texture_palette[i]

\* the raw name of a face has none of Top, Bottom, Front, Back, Right, Left
UnrecognizedName(complexFaceName) ==
    \A marker \in { <<"T", "o", "p">>, <<"B", "o", "t", "t", "o", "m">>,
                    <<"F", "r", "o", "n", "t">>, <<"B", "a", "c", "k">>,
                    <<"R", "i", "g", "h", "t">>, <<"L", "e", "f", "t">> } :
        ~Includes(complexFaceName, marker)

\* the block the inner loop is on, and the face it is about to index
CurrentBlockKey == ObjectEntries(mapData)[indexer.blockIdx][1]

CurrentFace == mapData[CurrentBlockKey].faceMap[indexer.faceIdx]

CurrentFaceResolves ==
    CurrentFace[2] + 1 \in DOMAIN mapData[CurrentBlockKey].texturePalette

CurrentReference == mapData[CurrentBlockKey].texturePalette[CurrentFace[2] + 1]

\* the positions of a reference in a palette
PositionsOf(palette, ref) == {i \in 1..Len(palette) : ReferenceOf(palette[i]) = ref}

\* the step of the indexer over a face of unrecognized name that resolves to
\* a texture: faceIndex stays as it is, the texture is in the palette (added
\* if it was not there), and the block is among the texture's blocks and in
\* includedBlockIds
UnrecognizedFaceStep ==
    (indexer.pc = "faces" /\ indexer' # indexer
        /\ UnrecognizedName(CurrentFace[1]) /\ CurrentFaceResolves)
    => /\ indexer'.faceIndex = indexer.faceIndex
       /\ Cardinality(PositionsOf(indexer'.texturePalette, CurrentReference)) = 1
       /\ Len(indexer'.texturePalette)
            = Len(indexer.texturePalette)
                + (IF PositionsOf(indexer.texturePalette, CurrentReference) = {}
                   THEN 1 ELSE 0)
       /\ \A i \in PositionsOf(indexer'.texturePalette, CurrentReference) :
             /\ (i - 1) \in DOMAIN indexer'.textureIdToBlockIds
             /\ Contains(indexer'.textureIdToBlockIds[i - 1], parseInt(CurrentBlockKey))
       /\ Contains(indexer'.includedBlockIds, parseInt(CurrentBlockKey))

\* the blocks, not excluded, that refer to a texture by a recognized face
RecognizedOwnersOf(ref, simpleFaceName) ==
    {k \in DOMAIN mapData :
        /\ ~ExcludedBlock(k)
        /\ \E f \in 1..Len(mapData[k].faceMap) :
             /\ getSimpleFaceName(mapData[k].faceMap[f][1]) = simpleFaceName
             /\ ~UnrecognizedName(mapData[k].faceMap[f][1])
             /\ mapData[k].faceMap[f][2] + 1 \in DOMAIN mapData[k].texturePalette
             /\ mapData[k].texturePalette[mapData[k].faceMap[f][2] + 1] = ref}

\* in the written index a texture is listed under a face only for a block
\* that refers to it by a face of that name, while its blockIds are all the
\* blocks that refer to it, by any face, and each of them is in the list of
\* included block ids
UnrecognizedFacesInIndex ==
    indexFile # NoFile =>
        \A i \in 1..Len(indexFile[1].texture_palette) :
            LET texture == indexFile[1].texture_palette[i]
            IN  /\ \A face \in DOMAIN indexFile[1].face_index :
                     (\E h \in DOMAIN indexFile[1].face_index[face] :
                          Contains(indexFile[1].face_index[face][h], texture.textureId))
                     <=> RecognizedOwnersOf(ReferenceOf(texture), face) # {}
                /\ Range(texture.blockIds)
                     = OwnersOf(texture.atlasFileIndex, texture.textureIndexOnAtlas)
                /\ Range(texture.blockIds) \subseteq Range(blockIdListFile[1])

\* C13: a face whose raw name contains none of Top/Bottom/Front/Back/Right/
\* Left leaves every faceIndex entry unchanged, but its texture is still
\* added to the palette (if new) and the block id is still recorded in the
\* texture's blockIds and in includedBlockIds.
C13_UnknownFaceSkipped == [][UnrecognizedFaceStep]_vars /\ []UnrecognizedFacesInIndex

\* C13 witness: the index holds a texture that only faces of unrecognized
\* name refer to: it is under no face of the face index and has its block
C13_Witness ==
    /\ indexFile # NoFile
    /\ \E i \in 1..Len(indexFile[1].texture_palette) :
         LET texture == indexFile[1].texture_palette[i]
         IN  /\ texture.blockIds # << >>
             /\ \A face \in DOMAIN indexFile[1].face_index :
                   RecognizedOwnersOf(ReferenceOf(texture), face) = {}
             /\ \A face \in DOMAIN indexFile[1].face_index :
                   \A h \in DOMAIN indexFile[1].face_index[face] :
                       ~Contains(indexFile[1].face_index[face][h], texture.textureId)

\* every cell of a grid that has been filled holds the id of a candidate
FilledWithCandidates(grid) ==
    \A y \in DOMAIN grid : \A x \in DOMAIN grid[y] : grid[y][x] \in CandidateIds

\* the cells of the frame in hand that the pixel loops have been through
CellsMatched == {k \in 0..(cellCount - 1) : k < cell}

\* C14: in every frame of every job with candidates, every cell of the
\* ChoiceGrid that has been matched holds the textureId of a candidate, never
\* the no-match value and never a texture the filter left out, also where
\* the previous frame's choice was kept.
C14_CellsAreCandidates ==
    pc \in {"pixels", "frameEnd", "encode", "done"}
    => /\ candidates # << >>
       /\ \A k \in CellsMatched :
              currentFrameChoices[rowOf(k)][colOf(k)] \in CandidateIds
       /\ pc # "pixels" => FilledWithCandidates(currentFrameChoices)
       /\ FilledWithCandidates(previousFrameChoices)
       /\ FilledWithCandidates(lastCompleted)
       /\ \A e \in 1..Len(encodedFrames) : FilledWithCandidates(encodedFrames[e].grid)
       /\ lastMatch.frame >= 0 => lastMatch.textureId \in CandidateIds
       /\ \A i \in 1..Len(textureData.texture_palette) :
              textureData.texture_palette[i].textureId \in CandidateIds
              => MeetsAllFive(textureData.texture_palette[i], CONFIG)

\* C14 witness: a second frame is complete, the filter left textures out,
\* and the cell matched last kept the previous frame's choice although
\* another candidate is nearer
C14_Witness ==
    /\ script = "sequence" /\ pc = "done" /\ frameIdx >= 2
    /\ Len(candidates) < Len(textureData.texture_palette)
    /\ lastMatch.textureId = lastMatch.previousChoiceId
    /\ candidates[FirstNearest(LastTarget)].textureInfo.textureId # lastMatch.textureId
    /\ FilledWithCandidates(currentFrameChoices)

\* the squared distance from a colour to the perceived colour of the
\* candidate of a texture id
DistSqToTexture(target, textureId) == CandDistSq(target, PositionOfId(textureId))

\* the grid that holds the cell matched last: the grid in hand, or the one
\* returned last when the loop has just gone on to the next frame
GridOfLastMatch ==
    IF lastMatch.frame = frameIdx \/ pc = "done" THEN currentFrameChoices ELSE lastCompleted

\* C15: for every cell matched, the distance from the cell's target colour to
\* the perceived colour of the texture chosen exceeds the distance to the
\* nearest candidate by at most textureSwitchThreshold.
C15_BoundedSuboptimality ==
    (script = "sequence" /\ lastMatch.frame >= 0)
    => /\ lastMatch.textureId \in CandidateIds
       /\ GridOfLastMatch[rowOf(lastMatch.cell)][colOf(lastMatch.cell)]
              = lastMatch.textureId
       /\ ~RootsDifferByMoreThan(DistSqToTexture(LastTarget, lastMatch.textureId),
                                 CandDistSq(LastTarget, FirstNearest(LastTarget)),
                                 SwitchThreshold)
       /\ colorDistance(LastTarget, candidates[PositionOfId(lastMatch.textureId)].perceivedColor)
            - colorDistance(LastTarget, candidates[FirstNearest(LastTarget)].perceivedColor)
            <= textureSwitchThreshold

\* C15 witness: a cell of a later frame whose texture is further from the
\* target than the nearest candidate, by less than the threshold
C15_Witness ==
    /\ script = "sequence" /\ lastMatch.frame >= 1
    /\ lastMatch.textureId \in CandidateIds
    /\ DistSqToTexture(LastTarget, lastMatch.textureId)
          > CandDistSq(LastTarget, FirstNearest(LastTarget))
    /\ ~RootsDifferBy(DistSqToTexture(LastTarget, lastMatch.textureId),
                      CandDistSq(LastTarget, FirstNearest(LastTarget)), SwitchThreshold)

\* the last match is of a frame after the first and its frame is in hand
LaterFrameMatch ==
    script = "sequence" /\ lastMatch.frame >= 1 /\ lastMatch.frame = frameIdx

\* the texture chosen at the coordinate of the last match in the frame before
ChosenBefore == lastCompleted[rowOf(lastMatch.cell)][colOf(lastMatch.cell)]

\* the pixel at that coordinate in the frame before
TargetBefore == intToRGBA(previousFramePixels[lastMatch.cell + 1])

SameColour(c1, c2) == c1.r = c2.r /\ c1.g = c2.g /\ c1.b = c2.b

\* C16: the texture chosen at a coordinate in frame k > 0 differs from the
\* one chosen there in frame k-1 only if it is the nearest candidate for frame
\* k's pixel and nearer than the previous texture by more than
\* textureSwitchThreshold; and if the pixel has the colour it had in frame
\* k-1, the choice does not change.
C16_TemporalStability ==
    LaterFrameMatch
    => /\ framePixels[lastMatch.cell + 1] = lastMatch.pixelColorInt
       /\ currentFrameChoices[rowOf(lastMatch.cell)][colOf(lastMatch.cell)]
              = lastMatch.textureId
       /\ lastMatch.textureId # ChosenBefore
          => /\ lastMatch.textureId
                    = candidates[FirstNearest(LastTarget)].textureInfo.textureId
             /\ RootsDifferByMoreThan(DistSqToTexture(LastTarget, ChosenBefore),
                                      DistSqToTexture(LastTarget, lastMatch.textureId),
                                      SwitchThreshold)
       /\ SameColour(LastTarget, TargetBefore) => lastMatch.textureId = ChosenBefore

\* C16 witness: third frame, the pixel has the colour it had in the second,
\* where the first frame's texture was kept though another was nearer: it is
\* kept again
C16_Witness ==
    /\ LaterFrameMatch /\ lastMatch.frame = 2
    /\ SameColour(LastTarget, TargetBefore)
    /\ lastMatch.textureId = ChosenBefore
    /\ candidates[FirstNearest(LastTarget)].textureInfo.textureId # lastMatch.textureId

====
